---- MODULE Spec2Model ----
(***************************************************************************)
(* Semi-continuum model of unsaturated porous-media flow (src/main.py).    *)
(*                                                                         *)
(* The program is a floating-point array computation.  The model keeps its *)
(* structure (arrays indexed <<y, z, x>>, one action per loop iteration)   *)
(* and replaces float64 by fixed-point integers:                           *)
(*   - saturation and relative permeability in units of 1/One,             *)
(*   - lengths in units of 0.5 mm (CM units are 0.01 m),                   *)
(*   - the noise sample and the permeability multiplier in units 1/MOne,   *)
(*   - pressure and flux in integer units chosen so that SM is an integer. *)
(* Rounding error of float64 is therefore outside the model.  A float NaN  *)
(* (a non-integer power of a negative base, line 320) is modelled by the   *)
(* flag nan: once set, the values of the arrays are no longer tracked.     *)
(***************************************************************************)
EXTENDS Integers, Sequences, FiniteSets, TLC

VARIABLES
    \* ---- configuration (module-level constants of main.py, fixed per run)
    FLUX_FULL, FLUX_MIDDLE, dL, X_SIZE, Y_SIZE, Z_SIZE, S0, Q0,
    SATURATION_RESIDUAL, WHICH_BRANCH, RANDOMIZATION_INTRINSIC_PERMEABILITY,
    random_perm,
    \* ---- arrays of the simulation
    S, P, Q_X, Q_Y, Q_Z, Q, bound_flux,
    \* ---- loop control and diagnostics
    k, pc, nan, error_rel,
    \* ---- history: S and P as they were at the start of the last iteration
    S_prev, P_prev

config == <<FLUX_FULL, FLUX_MIDDLE, dL, X_SIZE, Y_SIZE, Z_SIZE, S0, Q0,
            SATURATION_RESIDUAL, WHICH_BRANCH,
            RANDOMIZATION_INTRINSIC_PERMEABILITY, random_perm>>

vars == <<config, S, P, Q_X, Q_Y, Q_Z, Q, bound_flux, k, pc, nan, error_rel,
          S_prev, P_prev>>

----------------------------------------------------------------------------
\* Units and program constants

One == 1000
LIM_VALUE == 999
CM == 20
MOne == 10
KAPPA == 20
MU_INVERSE == 1
RHO_G == 10
THETA == 1
dtBase == 40
Kps == 3
PRINT_MODULO == 2
PGap == 150

\* Bounds of the model: the number of iterations of the time loop, and the
\* depth of the medium in units of 0.01 m.
MaxIter == 5
MaxDepth == 2

iteration == MaxIter

\* Sets the configuration is drawn from.
SizeSet == {CM, 2 * CM}
DepthSet == {CM * i : i \in 1 .. MaxDepth}
CellSizeSet == {CM \div 2, CM}
S0Set == {10, 700}
Q0Set == {0, 100}
ResidualSet == {50, 1050}
NoisePairs == {<<-5, 5>>, <<0, 5>>}

----------------------------------------------------------------------------
\* Arithmetic helpers

Max(a, b) == IF a >= b THEN a ELSE b
Min(a, b) == IF a <= b THEN a ELSE b
Abs(a) == IF a >= 0 THEN a ELSE 0 - a

\* Python 3 round() of the non-negative quotient n/d: ties go to the even integer.
PyRound(n, d) ==
    LET q == n \div d
        r == n % d
    IN  IF 2 * r < d THEN q
        ELSE IF 2 * r > d THEN q + 1
        ELSE IF q % 2 = 0 THEN q ELSE q + 1

RECURSIVE IsqrtIn(_, _, _)
IsqrtIn(n, lo, hi) ==
    IF lo >= hi THEN lo
    ELSE LET mid == (lo + hi + 1) \div 2
         IN  IF mid * mid <= n THEN IsqrtIn(n, mid, hi) ELSE IsqrtIn(n, lo, mid - 1)

\* floor of the square root of n, 0 <= n <= One * One (np.sqrt in fixed point)
Isqrt(n) == IsqrtIn(n, 0, One)

\* product of two fixed-point numbers of unit 1/One
FixMul(a, b) == (a * b) \div One

RECURSIVE SumOver(_, _)
SumOver(f, D) ==
    IF D = {} THEN 0
    ELSE LET c == CHOOSE c \in D : TRUE IN f[c] + SumOver(f, D \ {c})

\* np.sum of an array
Sum(f) == SumOver(f, DOMAIN f)

\* np.amax of an array
AMax(f) == CHOOSE m \in {f[c] : c \in DOMAIN f} : \A c \in DOMAIN f : f[c] <= m

----------------------------------------------------------------------------
\* Grid

N_X == X_SIZE \div dL
N_Y == Y_SIZE \div dL
N_Z == Z_SIZE \div dL

Cells == (0 .. N_Y - 1) \X (0 .. N_Z - 1) \X (0 .. N_X - 1)
FacesX == (0 .. N_Y - 1) \X (0 .. N_Z - 1) \X (0 .. N_X)
FacesY == (0 .. N_Y) \X (0 .. N_Z - 1) \X (0 .. N_X - 1)
FacesZ == (0 .. N_Y - 1) \X (0 .. N_Z) \X (0 .. N_X - 1)
Columns == (0 .. N_Y - 1) \X (0 .. N_X - 1)

\* the indices a Python slice a:b selects on an axis of length n (0 <= a)
Slice(a, b, n) == {i \in 0 .. n - 1 : a <= i /\ i < b}

SM == (dL * dL * dtBase) \div (CM * CM * THETA * dL)

----------------------------------------------------------------------------
\* Intrinsic permeability (lines 217-228)

\* multiply, lines 217-222: a zero-filled array in which only the entries with
\* a positive or a negative noise sample are assigned; all ones without
\* randomization.
multiply(c) ==
    IF RANDOMIZATION_INTRINSIC_PERMEABILITY
    THEN IF random_perm[c] > 0 THEN MOne + random_perm[c]
         ELSE IF random_perm[c] < 0 THEN (MOne * MOne) \div (MOne - random_perm[c])
         ELSE 0
    ELSE MOne

k_rnd(c) == KAPPA * multiply(c)
k_rnd_sqrt(c) == Isqrt(k_rnd(c))

\* conductance of the face between cell c and its successor along x, z and y
k_rnd_q1(c) == MU_INVERSE * k_rnd_sqrt(c) * k_rnd_sqrt(<<c[1], c[2], c[3] + 1>>)
k_rnd_q2(c) == MU_INVERSE * k_rnd_sqrt(c) * k_rnd_sqrt(<<c[1], c[2] + 1, c[3]>>)
k_rnd_q3(c) == MU_INVERSE * k_rnd_sqrt(c) * k_rnd_sqrt(<<c[1] + 1, c[2], c[3]>>)

----------------------------------------------------------------------------
\* Retention curves (module retention_curves, not part of the sources):
\* a pressure that is monotonic in the saturation, scaled by A_RC, with the
\* draining branch at or above the wetting branch.

A_RC_num == 12 * dL
A_RC_den == 10 * CM

retention_curve_wet(s) == (A_RC_num * (s - One)) \div A_RC_den
retention_curve_drain(s) == (A_RC_num * (s - One + PGap)) \div A_RC_den

----------------------------------------------------------------------------
\* Top boundary condition (lines 245-259)

pom_x == PyRound(X_SIZE - CM, 2 * dL)
pom_y == PyRound(Y_SIZE - CM, 2 * dL)
vec == PyRound(CM, dL)

TopFlux(y, x) ==
    IF FLUX_FULL /\ ~FLUX_MIDDLE
    THEN Q0
    ELSE IF ~FLUX_FULL /\ FLUX_MIDDLE
    THEN IF y \in Slice(pom_y, pom_y, N_Y) /\ x \in Slice(pom_x, pom_x + vec, N_X)
         THEN Q0 ELSE 0
    ELSE IF y = PyRound(N_Y, 2) /\ x = PyRound(N_X, 2) THEN Q0 ELSE 0

\* the zero-filled flux arrays of lines 135-137
Q_X_alloc == [f \in FacesX |-> 0]
Q_Y_alloc == [f \in FacesY |-> 0]
Q_Z_alloc == [f \in FacesZ |-> 0]

Q_Z_init == [f \in FacesZ |-> IF f[2] = 0 THEN TopFlux(f[1], f[3]) ELSE Q_Z_alloc[f]]

P_init(s) == IF WHICH_BRANCH = "wet" THEN retention_curve_wet(s) ELSE retention_curve_drain(s)

Init ==
    /\ FLUX_FULL \in BOOLEAN
    /\ FLUX_MIDDLE \in BOOLEAN
    /\ dL \in CellSizeSet
    /\ X_SIZE \in SizeSet
    /\ Y_SIZE \in SizeSet
    /\ Z_SIZE \in DepthSet
    /\ S0 \in S0Set
    /\ Q0 \in Q0Set
    /\ SATURATION_RESIDUAL \in ResidualSet
    /\ WHICH_BRANCH \in {"wet", "drain"}
    /\ \E np \in NoisePairs \cup {<<>>} :
          /\ RANDOMIZATION_INTRINSIC_PERMEABILITY = (np # <<>>)
          /\ random_perm = [c \in Cells |->
                              IF np = <<>> THEN 0
                              ELSE IF (c[1] + c[2] + c[3]) % 2 = 0 THEN np[1] ELSE np[2]]
    /\ S = [c \in Cells |-> S0]
    /\ P = [c \in Cells |-> P_init(S0)]
    /\ Q_X = Q_X_alloc
    /\ Q_Y = Q_Y_alloc
    /\ Q_Z = Q_Z_init
    /\ Q = [c \in Cells |-> 0]
    /\ bound_flux = [c \in Columns |-> 0]
    /\ k = 0
    /\ pc = "run"
    /\ nan = FALSE
    /\ error_rel = [kind |-> "none", abs |-> 0, should |-> 0]
    /\ S_prev = S
    /\ P_prev = P

----------------------------------------------------------------------------
\* One iteration of the main loop (lines 276-368)

\* Q, lines 278-280: the net flux into each cell from its six faces
Divergence(qx, qy, qz) ==
    [c \in Cells |->
        qx[c] - qx[<<c[1], c[2], c[3] + 1>>]
        + qy[c] - qy[<<c[1] + 1, c[2], c[3]>>]
        + qz[c] - qz[<<c[1], c[2] + 1, c[3]>>]]

\* line 282
SaturationUpdate(s, q) == [c \in Cells |-> s[c] + SM * q[c]]

\* BottomBoundary with the residual saturation itself as the lower limit
BottomBoundary_ResidualFloor(sn, bf) ==
    [c \in Cells |->
        IF c[2] = N_Z - 1
        THEN Max(sn[c] + SM * bf[<<c[1], c[3]>>], SATURATION_RESIDUAL)
        ELSE sn[c]]

\* lines 302-303: the bottom layer takes the boundary flux, limited from below
\* by bound_lim = min(S_new, bound_residual)
BottomBoundary(sn, bf) ==
    [c \in Cells |->
        IF c[2] = N_Z - 1
        THEN LET bound_lim == Min(sn[c], SATURATION_RESIDUAL)
             IN  Max(sn[c] + SM * bf[<<c[1], c[3]>>], bound_lim)
        ELSE sn[c]]

\* line 307: the relaxed pressure
Relaxed(p, s, sn, c) == p[c] + Kps * (sn[c] - s[c])

\* PressureUpdate with both branches evaluated at the new saturation
PressureUpdate_AtNew(p, s, sn) ==
    [c \in Cells |->
        LET R == Relaxed(p, s, sn, c)
        IN  IF (sn[c] - s[c]) > 0 THEN Min(R, retention_curve_wet(sn[c]))
            ELSE IF (s[c] - sn[c]) > 0 THEN Max(R, retention_curve_drain(sn[c]))
            ELSE R]

\* lines 307-316: relaxation, then the clamp to the branch of the cell's mode,
\* both branches evaluated at the saturation s the iteration started with
PressureUpdate(p, s, sn) ==
    [c \in Cells |->
        LET R == Relaxed(p, s, sn, c)
            wet == (sn[c] - s[c]) > 0
            drain == (s[c] - sn[c]) > 0
        IN  IF wet THEN Min(R, retention_curve_wet(s[c]))
            ELSE IF drain THEN Max(R, retention_curve_drain(s[c]))
            ELSE R]

\* line 320 is NaN where the saturation is negative (a non-integer power of a
\* negative base) or above one (1 - S ** M_Q_inverse is negative)
PermIsNaN(s) == s < 0 \/ s > One

\* perm, line 320, in fixed point with LAMBDA = 1 and M_Q = 1/2:
\* S * (1 - sqrt(1 - S^2))^2
perm(s) ==
    IF PermIsNaN(s) THEN 0
    ELSE LET a == One - Isqrt(One * One - s * s)
         IN  (s * a * a) \div (One * One)

\* line 321
perm_sqrt(s) == Isqrt(perm(s) * One)

\* lines 323-326: flux through the x-face between cell c and <<y, z, x+1>>
DarcyX(sn, p, c) ==
    LET d == <<c[1], c[2], c[3] + 1>>
    IN  FixMul(FixMul(k_rnd_q1(c), perm_sqrt(sn[c])), perm_sqrt(sn[d]))
        * (0 - ((p[d] - p[c]) \div dL))

\* lines 328-331: flux through the y-face between cell c and <<y+1, z, x>>
DarcyY(sn, p, c) ==
    LET d == <<c[1] + 1, c[2], c[3]>>
    IN  FixMul(FixMul(k_rnd_q3(c), perm_sqrt(sn[c])), perm_sqrt(sn[d]))
        * (0 - ((p[d] - p[c]) \div dL))

\* lines 333-336: flux through the z-face between cell c and <<y, z+1, x>>
DarcyZ(sn, p, c) ==
    LET d == <<c[1], c[2] + 1, c[3]>>
    IN  FixMul(FixMul(k_rnd_q2(c), perm_sqrt(sn[c])), perm_sqrt(sn[d]))
        * (RHO_G - ((p[d] - p[c]) \div dL))

\* line 341: the flux at the bottom boundary, against external pressure 0
BoundFlux(sn, p, col) ==
    LET c == <<col[1], N_Z - 1, col[2]>>
    IN  FixMul(MU_INVERSE * k_rnd(c), perm(sn[c])) * (RHO_G - ((0 - p[c]) \div dL))

\* the assignments of lines 323, 328 and 333 write the faces 1 .. N - 1
UpdateQ_X(qx, sn, p) ==
    [f \in FacesX |->
        IF f[3] \in Slice(1, N_X, N_X + 1)
        THEN DarcyX(sn, p, <<f[1], f[2], f[3] - 1>>) ELSE qx[f]]

\* UpdateQ_Y with the relative permeability of the saturation before the commit
UpdateQ_Y_OldS(qy, sn, p) ==
    [f \in FacesY |->
        IF f[1] \in Slice(1, N_Y, N_Y + 1)
        THEN DarcyY(S, p, <<f[1] - 1, f[2], f[3]>>) ELSE qy[f]]

UpdateQ_Y(qy, sn, p) ==
    [f \in FacesY |->
        IF f[1] \in Slice(1, N_Y, N_Y + 1)
        THEN DarcyY(sn, p, <<f[1] - 1, f[2], f[3]>>) ELSE qy[f]]

\* UpdateQ_Z that also stores the bottom boundary flux in the last z-face
UpdateQ_Z_WithBottom(qz, sn, p) ==
    [f \in FacesZ |->
        IF f[2] = N_Z THEN BoundFlux(sn, p, <<f[1], f[3]>>)
        ELSE IF f[2] \in Slice(1, N_Z, N_Z + 1)
        THEN DarcyZ(sn, p, <<f[1], f[2] - 1, f[3]>>) ELSE qz[f]]

UpdateQ_Z(qz, sn, p) ==
    [f \in FacesZ |->
        IF f[2] \in Slice(1, N_Z, N_Z + 1)
        THEN DarcyZ(sn, p, <<f[1], f[2] - 1, f[3]>>) ELSE qz[f]]

UpdateBoundFlux(sn, p) == [col \in Columns |-> BoundFlux(sn, p, col)]

\* lines 357-360: the mass balance at a checkpoint; the quotient is a float
\* division, which yields nan for 0/0 and inf for x/0
MassBalance(s, kk, qz) ==
    LET flowed_in_real == Sum(s) - Sum([c \in Cells |-> S0])
        flowed_in_should == kk * SM * Sum([col \in Columns |-> qz[<<col[1], 0, col[2]>>]])
        error_abs == Abs(flowed_in_real - flowed_in_should)
    IN  [kind |-> IF flowed_in_should # 0 THEN "num"
                  ELSE IF error_abs = 0 THEN "nan" ELSE "inf",
         abs |-> error_abs, should |-> flowed_in_should]

\* line 367
Diverged(s) == Abs(AMax(s)) > LIM_VALUE

\* lines 344 and 367-368, and the end of range(1, iteration + 1)
NextPc(s, kk) ==
    IF Diverged(s) THEN "aborted"
    ELSE IF kk = iteration THEN "done" ELSE "run"

Step ==
    /\ pc = "run"
    /\ ~nan
    /\ k < iteration
    /\ LET q == Divergence(Q_X, Q_Y, Q_Z)
           sn == BottomBoundary(SaturationUpdate(S, q), bound_flux)
           pn == PressureUpdate(P, S, sn)
       IN  /\ Q' = q
           /\ P' = pn
           /\ Q_X' = UpdateQ_X(Q_X, sn, pn)
           /\ Q_Y' = UpdateQ_Y(Q_Y, sn, pn)
           /\ Q_Z' = UpdateQ_Z(Q_Z, sn, pn)
           /\ S' = sn
           /\ bound_flux' = UpdateBoundFlux(sn, pn)
           /\ k' = k + 1
           /\ error_rel' = IF (k + 1) % PRINT_MODULO = 0
                           THEN MassBalance(sn, k + 1, Q_Z) ELSE error_rel
           /\ nan' = \E c \in Cells : PermIsNaN(sn[c])
           /\ pc' = NextPc(sn, k + 1)
           /\ S_prev' = S
           /\ P_prev' = P
    /\ UNCHANGED config

\* An iteration on arrays that hold NaN: every sum and maximum is NaN, the
\* comparison of line 367 is false, and the loop goes on to its end.
NaNStep ==
    /\ pc = "run"
    /\ nan
    /\ k < iteration
    /\ k' = k + 1
    /\ error_rel' = IF (k + 1) % PRINT_MODULO = 0
                    THEN [kind |-> "nan", abs |-> 0, should |-> 0] ELSE error_rel
    /\ pc' = IF k + 1 = iteration THEN "done" ELSE "run"
    /\ UNCHANGED <<config, S, P, Q_X, Q_Y, Q_Z, Q, bound_flux, nan, S_prev, P_prev>>

Next == Step \/ NaNStep

Spec == Init /\ [][Next]_vars

----------------------------------------------------------------------------
\* Quantities the properties below speak about

\* line 242: the initial saturation array, never written after initialization
S0_ini == [c \in Cells |-> S0]

\* np.sum(Q_Z[:, 0, :]), line 358
TopInflow == Sum([col \in Columns |-> Q_Z[<<col[1], 0, col[2]>>]])

InteriorX == {f \in FacesX : 1 <= f[3] /\ f[3] <= N_X - 1}
InteriorY == {f \in FacesY : 1 <= f[1] /\ f[1] <= N_Y - 1}
InteriorZ == {f \in FacesZ : 1 <= f[2] /\ f[2] <= N_Z - 1}

\* the interior face fluxes are the Darcy fluxes of the saturation s and pressure p
FluxesAreDarcyOf(s, p) ==
    /\ \A f \in InteriorX : Q_X[f] = DarcyX(s, p, <<f[1], f[2], f[3] - 1>>)
    /\ \A f \in InteriorY : Q_Y[f] = DarcyY(s, p, <<f[1] - 1, f[2], f[3]>>)
    /\ \A f \in InteriorZ : Q_Z[f] = DarcyZ(s, p, <<f[1], f[2] - 1, f[3]>>)

----------------------------------------------------------------------------
\* C1 (as stated): with bottom outflow disabled (residual threshold >= 1.0), after
\* every iteration k the total saturation minus the initial total equals
\* k * SM * sum(Q_Z[:,0,:]), whatever the sign of bound_flux.
C1_Conservation ==
    (SATURATION_RESIDUAL >= One /\ ~nan /\ k >= 1)
        => Sum(S) - Sum(S0_ini) = k * SM * TopInflow

\* C2 (as stated): a committed saturation field with a cell below 0 or above
\* LIM_VALUE exists only in a run that aborted in that iteration.
C2_BoundsFatal ==
    \A c \in Cells : (S[c] < 0 \/ S[c] > LIM_VALUE) => pc = "aborted"

\* C3 (as stated): with Q0 = 0 and a uniform initial saturation, on any grid,
\* after every iteration every cell still has saturation S0 and the pressure of
\* the initially chosen branch at S0.
C3_ZeroFluxKeepsField ==
    (Q0 = 0 /\ ~nan) => \A c \in Cells : S[c] = S0 /\ P[c] = P_init(S0)

\* C3 (amended): with Q0 = 0 and a uniform initial saturation, on any grid, the
\* field after the first iteration still has saturation S0 and the initial
\* branch pressure in every cell, because the fluxes that iteration consumes
\* are the zeros of the allocation.
C3_ZeroFluxFirstIteration ==
    (Q0 = 0 /\ k <= 1) => \A c \in Cells : S[c] = S0 /\ P[c] = P_init(S0)

\* C3 witness: a zero-flux run on a grid with two layers has finished its first
\* iteration and the gravity term has already produced an interior z-flux.
C3_Witness ==
    /\ Q0 = 0 /\ k = 1 /\ N_Z >= 2
    /\ \E f \in InteriorZ : Q_Z[f] > 0

\* C4: hysteresis ordering.  With R the relaxed value P_old + Kps*(S_new - S_old):
\* a cell whose saturation rose has P = min(R, P_wet(S_old)), one whose
\* saturation fell has P = max(R, P_drain(S_old)), and one whose saturation
\* did not change keeps P = R = P_old.
C4_Hysteresis ==
    k >= 1 =>
        \A c \in Cells :
            LET R == P_prev[c] + Kps * (S[c] - S_prev[c])
            IN  /\ S[c] > S_prev[c] =>
                    /\ P[c] = Min(R, retention_curve_wet(S_prev[c]))
                    /\ P[c] <= R
                    /\ P[c] <= retention_curve_wet(S_prev[c])
                /\ S[c] < S_prev[c] =>
                    /\ P[c] = Max(R, retention_curve_drain(S_prev[c]))
                    /\ P[c] >= retention_curve_drain(S_prev[c])
                /\ S[c] = S_prev[c] => P[c] = R /\ R = P_prev[c]

\* C4 witness: one iteration left a wetting cell clamped below its relaxed
\* value, a draining cell clamped above it, and an unchanged cell.
C4_Witness ==
    /\ k >= 1
    /\ \E c \in Cells : S[c] > S_prev[c] /\ P[c] < P_prev[c] + Kps * (S[c] - S_prev[c])
    /\ \E c \in Cells : S[c] < S_prev[c] /\ P[c] > P_prev[c] + Kps * (S[c] - S_prev[c])
    /\ \E c \in Cells : S[c] = S_prev[c]

\* C5 (as stated): after initialization the top faces carrying Q0 are every top
\* face in the full mode, the non-empty centered block of vec cells starting at
\* pom_y, pom_x in the middle-strip mode, and exactly the centered cell in the
\* single-cell mode; every other top face carries 0.
C5_TopPattern ==
    k = 0 =>
        /\ (FLUX_FULL /\ ~FLUX_MIDDLE) =>
              \A col \in Columns : Q_Z[<<col[1], 0, col[2]>>] = Q0
        /\ (~FLUX_FULL /\ FLUX_MIDDLE) =>
              LET block == {col \in Columns :
                               /\ pom_y <= col[1] /\ col[1] < pom_y + vec
                               /\ pom_x <= col[2] /\ col[2] < pom_x + vec}
              IN  /\ block # {}
                  /\ \A col \in Columns :
                        Q_Z[<<col[1], 0, col[2]>>] = IF col \in block THEN Q0 ELSE 0
        /\ (~FLUX_FULL /\ ~FLUX_MIDDLE) =>
              \A col \in Columns :
                  Q_Z[<<col[1], 0, col[2]>>] =
                      IF col = <<N_Y \div 2, N_X \div 2>> THEN Q0 ELSE 0

\* C6 (as stated): the permeability multiplier is 1 + r for r > 0, 1/(1 - r) for
\* r < 0 and 1 for r = 0, hence positive, and so are k_rnd and every face
\* conductance.
C6_PermeabilityPositive ==
    RANDOMIZATION_INTRINSIC_PERMEABILITY =>
        \A c \in Cells :
            LET r == random_perm[c]
            IN  /\ r > 0 => multiply(c) = MOne + r
                /\ r < 0 => multiply(c) = (MOne * MOne) \div (MOne - r)
                /\ r = 0 => multiply(c) = MOne
                /\ multiply(c) > 0
                /\ k_rnd(c) > 0
                /\ c[3] < N_X - 1 => k_rnd_q1(c) > 0
                /\ c[2] < N_Z - 1 => k_rnd_q2(c) > 0
                /\ c[1] < N_Y - 1 => k_rnd_q3(c) > 0

\* C7: closed boundaries.  After any number of iterations the faces at x-index
\* 0 and N_X, y-index 0 and N_Y and z-index N_Z carry zero flux, and the top
\* faces carry the flux set at initialization.
C7_ClosedBoundaries ==
    /\ \A f \in FacesX : f[3] \in {0, N_X} => Q_X[f] = 0
    /\ \A f \in FacesY : f[1] \in {0, N_Y} => Q_Y[f] = 0
    /\ \A f \in FacesZ : f[2] = N_Z => Q_Z[f] = 0
    /\ \A f \in FacesZ : f[2] = 0 => Q_Z[f] = TopFlux(f[1], f[3])

\* C7 witness: after two iterations with a top flux there is flux through
\* interior faces of all three axes, and through the bottom boundary.
C7_Witness ==
    /\ k >= 2 /\ Q0 > 0
    /\ \E f \in InteriorX : Q_X[f] # 0
    /\ \E f \in InteriorY : Q_Y[f] # 0
    /\ \E f \in InteriorZ : Q_Z[f] # 0
    /\ \E col \in Columns : bound_flux[col] # 0

\* C8 (as stated): at a checkpoint whose theoretical inflow k * SM * sum(top flux)
\* is zero the relative error is the outcome "undefined", and no division by
\* zero is performed.
C8_UndefinedOnZeroInflow ==
    (k >= 1 /\ k % PRINT_MODULO = 0 /\ ~nan /\ k * SM * TopInflow = 0)
        => error_rel.kind = "undefined"

\* C9 (as stated): with both FLUX_FULL and FLUX_MIDDLE enabled, initialization
\* ends in a configuration error and no iteration runs.
C9_ConflictingModesRejected ==
    (FLUX_FULL /\ FLUX_MIDDLE) => (pc = "config_error" /\ k = 0)

\* C10 (as stated): in every iteration, the first included, the interior face
\* fluxes the saturation update consumes are the Darcy fluxes of the (S, P)
\* held at the start of that iteration.
C10_ConsumedFluxIsDarcy ==
    (pc = "run" /\ ~nan) => FluxesAreDarcyOf(S, P)

\* C10 (amended): the fluxes consumed by iteration 1 are the zeros of the
\* allocation; after every iteration k >= 1 the interior fluxes and the bottom
\* boundary flux are the Darcy fluxes of the committed S and the new P, the
\* pressure is the update of the old pressure with the old and the new
\* saturation, and the cells above the bottom layer hold S_old + SM * Q.
C10_StepOrdering ==
    /\ k = 0 =>
          /\ \A f \in InteriorX : Q_X[f] = 0
          /\ \A f \in InteriorY : Q_Y[f] = 0
          /\ \A f \in InteriorZ : Q_Z[f] = 0
          /\ \A col \in Columns : bound_flux[col] = 0
    /\ (k >= 1 /\ ~nan) =>
          /\ FluxesAreDarcyOf(S, P)
          /\ \A col \in Columns : bound_flux[col] = BoundFlux(S, P, col)
    /\ k >= 1 =>
          /\ P = PressureUpdate(P_prev, S_prev, S)
          /\ \A c \in Cells : c[2] < N_Z - 1 => S[c] = S_prev[c] + SM * Q[c]

\* C10 witness: a third iteration can start from a state whose interior
\* z-fluxes are not zero.
C10_Witness ==
    /\ k >= 2 /\ pc = "run" /\ ~nan
    /\ \E f \in InteriorZ : Q_Z[f] # 0
    /\ \E f \in InteriorX : Q_X[f] # 0

====
